---- MODULE Spec2Model ----
(***************************************************************************)
(* Model of the MkDocs macros of main.py: downshift_md_heading,            *)
(* replace_links_in_markdown, include_file, include_file_sections and      *)
(* list_actions.  Text is a sequence of one-character strings, so that the *)
(* two regular expressions of main.py are matched character by character,  *)
(* as Python's re module matches them.                                     *)
(*                                                                         *)
(* A behaviour is one macro call on the files of a project: the initial    *)
(* state holds the files, the action is the call, and the state after it   *)
(* holds the locals of the macro and what it returned or raised.           *)
(*                                                                         *)
(* The text of the model is ASCII with blank and line feed as its only     *)
(* whitespace.  include_file is modelled with code_type=None; list_actions *)
(* starts from the front matter and body split_yaml_header returns, with   *)
(* date strings of the form YYYY-MM-DD.                                    *)
(***************************************************************************)
EXTENDS Integers, Sequences, FiniteSets, TLC

VARIABLES lines, action_files, pc, op, args, content, link_defs, sections, out,
          actions, entries, ret

vars == <<lines, action_files, pc, op, args, content, link_defs, sections, out,
          actions, entries, ret>>

\* ---------------------------------------------------------------- bounds
MaxLines == 3
MaxFiles == 3

\* ---------------------------------------------------------------- text
NL == "\n"

\* the character U+0060, which a TLA+ string cannot hold
BT == "BACKTICK"

\* the value of a call that raised
None == <<"None">>

Min(S) == CHOOSE x \in S : \A y \in S : x <= y

IsSpace(c) == c \in {" ", NL}

\* str.lower() on ASCII text
UpperCase == <<"A", "B", "C", "D", "E", "F", "G", "H", "I", "J", "K", "L", "M", "N", "O", "P", "Q", "R", "S", "T", "U", "V", "W", "X", "Y", "Z">>
LowerCase == <<"a", "b", "c", "d", "e", "f", "g", "h", "i", "j", "k", "l", "m", "n", "o", "p", "q", "r", "s", "t", "u", "v", "w", "x", "y", "z">>

Lower(c) ==
  IF \E i \in 1..26 : UpperCase[i] = c
  THEN LowerCase[CHOOSE i \in 1..26 : UpperCase[i] = c]
  ELSE c

StrLower(s) == [i \in 1..Len(s) |-> Lower(s[i])]

RECURSIVE LStrip(_)
LStrip(s) ==
  IF s = <<>> THEN <<>>
  ELSE IF IsSpace(Head(s)) THEN LStrip(Tail(s)) ELSE s

RECURSIVE RStrip(_)
RStrip(s) ==
  IF s = <<>> THEN <<>>
  ELSE IF IsSpace(s[Len(s)]) THEN RStrip(SubSeq(s, 1, Len(s) - 1)) ELSE s

\* str.strip()
Strip(s) == RStrip(LStrip(s))

\* sep.join(parts)
RECURSIVE Join(_, _)
Join(parts, sep) ==
  IF parts = <<>> THEN <<>>
  ELSE IF Len(parts) = 1 THEN parts[1]
  ELSE parts[1] \o sep \o Join(Tail(parts), sep)

\* '#' * n
RECURSIVE Hashes(_)
Hashes(n) == IF n = 0 THEN <<>> ELSE <<"#">> \o Hashes(n - 1)

\* ^ under re.MULTILINE: position p starts a line of s
AtLineStart(s, p) == p = 1 \/ (p > 1 /\ p <= Len(s) + 1 /\ s[p - 1] = NL)

\* first position >= p that holds a newline, or Len(s)+1: where .* and .+ stop
RECURSIVE LineEnd(_, _)
LineEnd(s, p) ==
  IF p > Len(s) THEN Len(s) + 1
  ELSE IF s[p] = NL THEN p ELSE LineEnd(s, p + 1)

\* first position >= p that does not hold c
RECURSIVE SkipChar(_, _, _)
SkipChar(s, p, c) ==
  IF p > Len(s) THEN Len(s) + 1
  ELSE IF s[p] = c THEN SkipChar(s, p + 1, c) ELSE p

\* first position >= p that holds no whitespace: where a greedy \s* or \s+ stops
RECURSIVE SkipSpace(_, _)
SkipSpace(s, p) ==
  IF p > Len(s) THEN Len(s) + 1
  ELSE IF IsSpace(s[p]) THEN SkipSpace(s, p + 1) ELSE p

\* ---------------------------------------------------------------- MD_HEADING_REGEX
\* ^(#{1,6})\s+(.*) tried at position p.  \s also matches a newline, so the
\* whitespace after the hashes may run over line ends.
MD_HEADING_REGEX(s, p) ==
  LET h == SkipChar(s, p, "#")
      n == h - p
      w == SkipSpace(s, h)
  IN  IF AtLineStart(s, p) /\ n >= 1 /\ n <= 6 /\ h <= Len(s) /\ IsSpace(s[h])
      THEN [ok |-> TRUE, start |-> p, hashes |-> n, tstart |-> w, end |-> LineEnd(s, w)]
      ELSE [ok |-> FALSE, start |-> p, hashes |-> 0, tstart |-> p, end |-> p]

\* the non-overlapping matches of MD_HEADING_REGEX in s from position p on,
\* left to right (re.finditer / re.split / re.sub scan order)
RECURSIVE HeadingMatches(_, _)
HeadingMatches(s, p) ==
  LET at == {q \in p..Len(s) : MD_HEADING_REGEX(s, q).ok}
      m == MD_HEADING_REGEX(s, Min(at))
  IN  IF at = {} THEN <<>> ELSE <<m>> \o HeadingMatches(s, m.end)

\* ---------------------------------------------------------------- MD_LINK_DEF_REGEX
\* first position >= p that holds "]", or Len(s)+1
RECURSIVE FindClose(_, _)
FindClose(s, p) ==
  IF p > Len(s) THEN Len(s) + 1
  ELSE IF s[p] = "]" THEN p ELSE FindClose(s, p + 1)

\* last position t in q..hi with t <= Len(s) and s[t] not a newline, or 0:
\* where (.+) starts once the greedy \s* has given back what it must
RECURSIVE TargetStart(_, _, _)
TargetStart(s, q, hi) ==
  IF hi < q THEN 0
  ELSE IF hi <= Len(s) /\ s[hi] # NL THEN hi
  ELSE TargetStart(s, q, hi - 1)

\* ^(\[[^\]]+\]):\s*(.+)$ tried at position p
MD_LINK_DEF_REGEX(s, p) ==
  LET r == FindClose(s, p + 1)
      q == r + 2
      t == TargetStart(s, q, SkipSpace(s, q))
      no == [ok |-> FALSE, start |-> p, label |-> <<>>, target |-> <<>>, end |-> p]
  IN  IF AtLineStart(s, p) /\ p <= Len(s) /\ s[p] = "[" /\ r > p + 1
         /\ r + 1 <= Len(s) /\ s[r + 1] = ":" /\ t > 0
      THEN [ok |-> TRUE, start |-> p, label |-> SubSeq(s, p, r),
            target |-> SubSeq(s, t, LineEnd(s, t) - 1), end |-> LineEnd(s, t)]
      ELSE no

\* the non-overlapping matches of MD_LINK_DEF_REGEX in s from position p on
RECURSIVE LinkMatches(_, _)
LinkMatches(s, p) ==
  LET at == {q \in p..Len(s) : MD_LINK_DEF_REGEX(s, q).ok}
      m == MD_LINK_DEF_REGEX(s, Min(at))
  IN  IF at = {} THEN <<>> ELSE <<m>> \o LinkMatches(s, m.end)

\* MD_LINK_DEF_REGEX.findall(s): the (label, target) pairs in scan order
FindAllLinkDefs(s) ==
  LET ms == LinkMatches(s, 1)
  IN  [i \in 1..Len(ms) |-> <<ms[i].label, ms[i].target>>]

\* ---------------------------------------------------------------- re.sub
\* pattern.sub(repl, s): the text between matches is copied, each match
\* ms[i] is replaced by reps[i].  p is the copy position.
RECURSIVE Sub(_, _, _, _)
Sub(s, ms, reps, p) ==
  IF ms = <<>> THEN SubSeq(s, p, Len(s))
  ELSE SubSeq(s, p, Head(ms).start - 1) \o Head(reps)
       \o Sub(s, Tail(ms), Tail(reps), Head(ms).end)

\* ---------------------------------------------------------------- utilities
\* downshift_md_heading(md): repl keeps the hashes, adds one below six, and
\* writes one blank between the hashes and the title group
downshift_md_heading(md) ==
  LET ms == HeadingMatches(md, 1)
      repl(m) == (IF m.hashes < 6 THEN <<"#">> ELSE <<>>) \o Hashes(m.hashes)
                 \o <<" ">> \o SubSeq(md, m.tstart, m.end - 1)
  IN  Sub(md, ms, [i \in 1..Len(ms) |-> repl(ms[i])], 1)

BRANCH_PLACEHOLDER == <<"{", "b", "r", "a", "n", "c", "h", "_", "n", "a", "m", "e", "}">>

GITHUB_BASE ==
  <<"h", "t", "t", "p", ":", "/", "/", "g", "i", "t", "h", "u", "b", ".", "c", "o", "m", "/", "T", "I", "D", "E", "S", "-", "t", "r", "a", "n", "s", "i", "t", "/", "T", "I", "D", "E", "S", "/", "t", "r", "e", "e", "/">>

GITHUB_REPO == GITHUB_BASE \o BRANCH_PLACEHOLDER

UPDATE_LINKS ==
  ( <<"[", "a", "r", "c", "h", "i", "t", "e", "c", "t", "u", "r", "e", "]">> :> <<"a", "r", "c", "h", "i", "t", "e", "c", "t", "u", "r", "e", ".", "m", "d">> ) @@
  ( <<"[", "c", "h", "a", "n", "g", "e", "-", "p", "o", "l", "i", "c", "y", "]">> :>
      <<".", ".", "/", "g", "o", "v", "e", "r", "n", "a", "n", "c", "e", "/", "p", "o", "l", "i", "c", "i", "e", "s", "/", "c", "h", "a", "n", "g", "e", "-", "m", "a", "n", "a", "g", "e", "m", "e", "n", "t">> ) @@
  ( <<"[", BT, "t", "i", "d", "e", "s", ".", "s", "p", "e", "c", ".", "j", "s", "o", "n", BT, "]">> :>
      (GITHUB_REPO \o <<"/", "s", "p", "e", "c", "/", "t", "i", "d", "e", "s", ".", "s", "p", "e", "c", ".", "j", "s", "o", "n">>) )

\* replace_links_in_markdown(content, links)
replace_links_in_markdown(text, links) ==
  LET ms == LinkMatches(text, 1)
      repl(m) == IF m.label \in DOMAIN links
                 THEN m.label \o <<":", " ">> \o links[m.label]
                 ELSE SubSeq(text, m.start, m.end - 1)
  IN  Sub(text, ms, [i \in 1..Len(ms) |-> repl(ms[i])], 1)

\* s starts with pat at position p
StartsWithAt(s, pat, p) ==
  /\ p + Len(pat) - 1 <= Len(s)
  /\ s[p] = pat[1]
  /\ SubSeq(s, p, p + Len(pat) - 1) = pat

\* str.replace(old, new) from position p on
RECURSIVE Replace(_, _, _, _)
Replace(s, old, new, p) ==
  LET at == {q \in p..Len(s) : StartsWithAt(s, old, q)}
      q == Min(at)
  IN  IF at = {} THEN SubSeq(s, p, Len(s))
      ELSE SubSeq(s, p, q - 1) \o new \o Replace(s, old, new, q + Len(old))

\* lines[start_line:end_line] for start_line >= 0 and end_line None or >= 0;
\* end_line is <<>> for None and <<n>> for the integer n
Slice(ls, start_line, end_line) ==
  LET hi == IF end_line = <<>> THEN Len(ls)
            ELSE IF end_line[1] < Len(ls) THEN end_line[1] ELSE Len(ls)
  IN  SubSeq(ls, start_line + 1, hi)

\* include_file(filename, downshift_h1, start_line, end_line), code_type left
\* at its default None; ls is read_text().splitlines(), branch the Git branch
include_file(ls, downshift_h1, start_line, end_line, branch) ==
  LET snippet0 == Join(Slice(ls, start_line, end_line), <<NL>>)
      snippet1 == IF downshift_h1 THEN downshift_md_heading(snippet0) ELSE snippet0
      snippet2 == replace_links_in_markdown(snippet1, UPDATE_LINKS)
  IN  Replace(snippet2, BRANCH_PLACEHOLDER, branch, 1)

\* ---------------------------------------------------------------- include_file_sections
\* the triples with the title group left unstripped
Sections_noStrip(text) ==
  LET ms == HeadingMatches(text, 1)
      bodyEnd(i) == IF i < Len(ms) THEN ms[i + 1].start - 1 ELSE Len(text)
  IN  [i \in 1..Len(ms) |->
         [lvl |-> Hashes(ms[i].hashes),
          title |-> SubSeq(text, ms[i].tstart, ms[i].end - 1),
          body |-> Strip(SubSeq(text, ms[i].end, bodyEnd(i)))]]

\* the triples with the first section's body starting at the top of the
\* text, the preamble not dropped from what the section holds
Sections_keepPreamble(text) ==
  LET ms == HeadingMatches(text, 1)
      bodyEnd(i) == IF i < Len(ms) THEN ms[i + 1].start - 1 ELSE Len(text)
      pre == SubSeq(text, 1, ms[1].start - 1)
  IN  [i \in 1..Len(ms) |->
         [lvl |-> Hashes(ms[i].hashes),
          title |-> Strip(SubSeq(text, ms[i].tstart, ms[i].end - 1)),
          body |-> Strip((IF i = 1 THEN pre ELSE <<>>)
                         \o SubSeq(text, ms[i].end, bodyEnd(i)))]]

\* re.split(MD_HEADING_REGEX, content)[1:] taken in triples and stripped:
\* (hashes, title, body) per heading match, the body running to the next match
Sections(text) ==
  LET ms == HeadingMatches(text, 1)
      bodyEnd(i) == IF i < Len(ms) THEN ms[i + 1].start - 1 ELSE Len(text)
  IN  [i \in 1..Len(ms) |->
         [lvl |-> Hashes(ms[i].hashes),
          title |-> Strip(SubSeq(text, ms[i].tstart, ms[i].end - 1)),
          body |-> Strip(SubSeq(text, ms[i].end, bodyEnd(i)))]]

\* the titles taken as written, without lower()
LowerSet_asWritten(titles) == {titles[i] : i \in 1..Len(titles)}

\* {s.lower() for s in titles}
LowerSet(titles) == {StrLower(titles[i]) : i \in 1..Len(titles)}

\* the test without its "not inc" alternative
Keep_incRequired(sec, inc, exc) ==
  LET tkey == StrLower(sec.title)
  IN  tkey \in inc /\ tkey \notin exc

\* the test of the filter loop on one section
Keep(sec, inc, exc) ==
  LET tkey == StrLower(sec.title)
  IN  (inc = {} \/ tkey \in inc) /\ tkey \notin exc

\* f"{lvl} {title}\n\n{body}"
RenderSection(sec) == sec.lvl \o <<" ">> \o sec.title \o <<NL, NL>> \o sec.body

\* f"{lbl}: {href}"
RenderLinkDef(d) == d[1] \o <<":", " ">> \o d[2]

\* the kept sections inserted at the front of the list instead of appended
KeptSections_reversed(secs, inc, exc) ==
  LET keep(sec) == Keep(sec, inc, exc)
      kept == SelectSeq(secs, keep)
  IN  [i \in 1..Len(kept) |-> RenderSection(kept[Len(kept) + 1 - i])]

\* the kept sections, rendered, in document order
KeptSections(secs, inc, exc) ==
  LET keep(sec) == Keep(sec, inc, exc)
      kept == SelectSeq(secs, keep)
  IN  [i \in 1..Len(kept) |-> RenderSection(kept[i])]

\* the link definitions put in front of the sections
AppendLinkDefs_first(o, defs) == [i \in 1..Len(defs) |-> RenderLinkDef(defs[i])] \o o

\* the loop that re-appends the link definitions to out
AppendLinkDefs(o, defs) == o \o [i \in 1..Len(defs) |-> RenderLinkDef(defs[i])]

\* include_file_sections from the conflict test on, given the sections and
\* the link definitions of the text: out and the text returned, or the raise
FilterSections(secs, defs, include_sections, exclude_sections) ==
  LET inc == LowerSet(include_sections)
      exc == LowerSet(exclude_sections)
  IN  IF inc \cap exc # {}
      THEN [out |-> <<>>, ret |-> [status |-> "ValueError", text |-> None]]
      ELSE [out |-> AppendLinkDefs(KeptSections(secs, inc, exc), defs),
            ret |-> [status |-> "ok",
                     text |-> Join(AppendLinkDefs(KeptSections(secs, inc, exc), defs),
                                   <<NL, NL>>)]]

\* include_file_sections(filename, include_sections, exclude_sections,
\* downshift_h1=...): the text is read and scanned, then filtered
include_file_sections(ls, include_sections, exclude_sections, downshift_h1, branch) ==
  FilterSections(Sections(include_file(ls, downshift_h1, 0, <<>>, branch)),
                 FindAllLinkDefs(include_file(ls, downshift_h1, 0, <<>>, branch)),
                 include_sections, exclude_sections)

\* ---------------------------------------------------------------- inputs
\* the lines a file is made of (read_text().splitlines() holds no newline)
LineSet ==
  { <<"#", " ", "A">>,
    <<"#", "#", " ", "a", " ">>,
    <<"#", "#", "#", "#", "#", "#", " ", "B">>,
    <<"#", " ">>,
    <<"t">>,
    <<"[", "x", "]", ":", " ", "y">>,
    <<"[", "a", "r", "c", "h", "i", "t", "e", "c", "t", "u", "r", "e", "]", ":", " ", "x">> }

SeqsUpTo(S, n) == UNION {[1..k -> S] : k \in 0..n}

Files == SeqsUpTo(LineSet, MaxLines)

\* the titles a caller filters by
TitleSeq == << <<"A">>, <<"a">>, <<"A", " ">> >>

\* the entries of seq that mask selects, in the order of seq
RECURSIVE Pick(_, _)
Pick(seq, mask) ==
  IF seq = <<>> THEN <<>>
  ELSE (IF mask[1] THEN <<seq[1]>> ELSE <<>>)
       \o Pick(Tail(seq), [i \in 1..(Len(seq) - 1) |-> mask[i + 1]])

\* the lists of titles a caller passes as include_sections or exclude_sections
FilterLists == {Pick(TitleSeq, mask) : mask \in [1..Len(TitleSeq) -> BOOLEAN]}

\* the branch `git rev-parse --abbrev-ref HEAD` reports
get_git_branch_name == <<"m", "a", "i", "n">>

\* ---------------------------------------------------------------- list_actions
Digits == <<"0", "1", "2", "3", "4", "5", "6", "7", "8", "9">>

DigitValue(c) == (CHOOSE i \in 1..10 : Digits[i] = c) - 1

\* "%0wd" % n
RECURSIVE ZeroPad(_, _)
ZeroPad(n, w) ==
  IF w = 0 THEN <<>> ELSE ZeroPad(n \div 10, w - 1) \o <<Digits[(n % 10) + 1]>>

\* int(text) for a run of digits
RECURSIVE ParseInt(_)
ParseInt(s) ==
  IF s = <<>> THEN 0
  ELSE 10 * ParseInt(SubSeq(s, 1, Len(s) - 1)) + DigitValue(s[Len(s)])

\* A front-matter date is either a datetime.date, [kind |-> "date", ymd |-> <<y, m, d>>]
\* (what yaml.safe_load makes of  date: 2024-01-02), or a str,
\* [kind |-> "str", s |-> text] (what it makes of  date: "2024-01-02").

\* str(x["date"]): date.__str__ is isoformat()
DateStr(dt) ==
  IF dt.kind = "date"
  THEN ZeroPad(dt.ymd[1], 4) \o <<"-">> \o ZeroPad(dt.ymd[2], 2) \o <<"-">>
       \o ZeroPad(dt.ymd[3], 2)
  ELSE dt.s

\* datetime.strptime(s, "%Y-%m-%d") on a text of the form YYYY-MM-DD:
\* a datetime at midnight
strptime(s) ==
  [type |-> "datetime",
   val |-> <<ParseInt(SubSeq(s, 1, 4)), ParseInt(SubSeq(s, 6, 7)),
             ParseInt(SubSeq(s, 9, 10)), 0, 0, 0>>]

\* the sort key: x["date"] if isinstance(x["date"], date) else strptime(...)
SortKey(x) ==
  IF x.date.kind = "date" THEN [type |-> "date", val |-> x.date.ymd]
  ELSE strptime(x.date.s)

\* tuple comparison a < b, field by field
RECURSIVE TupleLess(_, _)
TupleLess(a, b) ==
  IF a = <<>> \/ b = <<>> THEN a = <<>> /\ b # <<>>
  ELSE IF Head(a) # Head(b) THEN Head(a) < Head(b)
  ELSE TupleLess(Tail(a), Tail(b))

\* k1 < k2 between sort keys: "TypeError" when a datetime.date meets a
\* datetime.datetime (date.__lt__ and datetime.__lt__ both refuse the other)
KeyLess(k1, k2) ==
  IF k1.type # k2.type THEN "TypeError"
  ELSE IF TupleLess(k1.val, k2.val) THEN "lt" ELSE "ge"

\* pivot < item as list.sort asks it, on the keys computed beforehand
ItemLess(a, b) == KeyLess(SortKey(a), SortKey(b))

\* list.reverse()
Reverse(xs) == [i \in 1..Len(xs) |-> xs[Len(xs) + 1 - i]]

\* list.sort works in place, and a comparison that raises leaves the list as the
\* steps taken so far have arranged it.  For fewer than 64 items the steps are:
\* reverse the list (reverse=True), find the run at its head, turn a descending
\* run round, extend the run over the whole list by binary insertion, reverse
\* the list back.

\* the run at the head of xs goes on past its n-th item
RECURSIVE CountRun(_, _, _)
CountRun(xs, n, desc) ==
  IF n = Len(xs) THEN [err |-> FALSE, n |-> n, desc |-> desc]
  ELSE LET c == ItemLess(xs[n + 1], xs[n])
       IN  IF c = "TypeError" THEN [err |-> TRUE, n |-> n, desc |-> desc]
           ELSE IF (c = "lt") = desc THEN CountRun(xs, n + 1, desc)
           ELSE [err |-> FALSE, n |-> n, desc |-> desc]

\* length of the run at the head of xs, strictly descending or else ascending
count_run(xs) ==
  IF Len(xs) <= 1 THEN [err |-> FALSE, n |-> Len(xs), desc |-> FALSE]
  ELSE LET c == ItemLess(xs[2], xs[1])
       IN  IF c = "TypeError" THEN [err |-> TRUE, n |-> 1, desc |-> FALSE]
           ELSE CountRun(xs, 2, c = "lt")

\* where pivot goes among xs[l..r-1], after the items equal to it
RECURSIVE BinarySearch(_, _, _, _)
BinarySearch(xs, pivot, l, r) ==
  IF l >= r THEN [err |-> FALSE, pos |-> l]
  ELSE LET p == l + ((r - l) \div 2)
           c == ItemLess(pivot, xs[p])
       IN  IF c = "TypeError" THEN [err |-> TRUE, pos |-> l]
           ELSE IF c = "lt" THEN BinarySearch(xs, pivot, l, p)
           ELSE BinarySearch(xs, pivot, p + 1, r)

\* xs[1..start-1] is sorted: insert xs[start], xs[start+1], ... one by one
RECURSIVE binarysort(_, _)
binarysort(xs, start) ==
  IF start > Len(xs) THEN [err |-> FALSE, seq |-> xs]
  ELSE LET b == BinarySearch(xs, xs[start], 1, start)
       IN  IF b.err THEN [err |-> TRUE, seq |-> xs]
           ELSE binarysort(SubSeq(xs, 1, b.pos - 1) \o <<xs[start]>>
                             \o SubSeq(xs, b.pos, start - 1)
                             \o SubSeq(xs, start + 1, Len(xs)),
                           start + 1)

\* actions.sort(key=..., reverse=True): whether it raised, and the list it leaves
SortActions(xs) ==
  LET rv == Reverse(xs)
      run == count_run(rv)
      asc == IF run.desc
             THEN Reverse(SubSeq(rv, 1, run.n)) \o SubSeq(rv, run.n + 1, Len(rv))
             ELSE rv
      b == binarysort(asc, run.n + 1)
  IN  IF run.err THEN [err |-> TRUE, seq |-> xs]
      ELSE [err |-> b.err, seq |-> Reverse(b.seq)]

\* str.splitlines() on text whose only line break is "\n"
RECURSIVE SplitLines(_)
SplitLines(s) ==
  IF s = <<>> THEN <<>>
  ELSE LET e == LineEnd(s, 1)
       IN  <<SubSeq(s, 1, e - 1)>> \o SplitLines(SubSeq(s, e + 1, Len(s)))

\* one entry of the rendered list
RenderEntry(act) ==
  LET title == <<"\"">> \o DateStr(act.date) \o <<" ">> \o act.title \o <<"\"">>
      head == <<<<"?", "?", "?", " ", "a", "b", "s", "t", "r", "a", "c", "t", " ">> \o title \o <<NL>>>>
      via == IF act.via # <<>>
             THEN <<<<" ", " ", " ", " ", ":", "m", "a", "t", "e", "r", "i", "a", "l", "-", "f", "i", "l", "e", "-", "c", "h", "e", "c", "k", ":", " ">> \o act.via>> ELSE <<>>
      loc == IF act.loc # <<>>
             THEN <<<<" ", " ", " ", " ", ":", "m", "a", "t", "e", "r", "i", "a", "l", "-", "f", "o", "l", "d", "e", "r", "-", "o", "p", "e", "n", ":", " ", "[", "f", "u", "l", "l", " ", "d", "o", "c", "u", "m", "e", "n", "t", "]", "(">> \o act.loc \o <<")">>>>
             ELSE <<>>
      body == Join(SplitLines(act.md_txt), <<NL, " ", " ", " ", " ">>)
  IN  Join(head \o via \o loc \o <<<<" ", " ", " ", " ">> \o body>>, <<NL>>)

\* list_actions(files), metas being the front matter and body of each file.
\* When the sort raises, the local actions holds every meta, entries is not yet
\* assigned (left empty here) and nothing is returned.
list_actions(metas) ==
  LET r == SortActions(metas)
      es == [i \in 1..Len(r.seq) |-> RenderEntry(r.seq[i])]
  IN  IF r.err
      THEN [actions |-> r.seq, entries |-> <<>>,
            ret |-> [status |-> "TypeError", text |-> None]]
      ELSE [actions |-> r.seq, entries |-> es,
            ret |-> [status |-> "ok", text |-> Join(es, <<NL, NL>>)]]

\* the dates a front matter holds
DateSet ==
  { [kind |-> "date", ymd |-> <<2024, 1, 2>>],
    [kind |-> "date", ymd |-> <<2024, 2, 1>>],
    [kind |-> "str", s |-> <<"2", "0", "2", "4", "-", "0", "1", "-", "0", "2">>],
    [kind |-> "str", s |-> <<"2", "0", "2", "3", "-", "1", "2", "-", "3", "1">>] }

\* the i-th action file: its title names it
ActionFile(i, dt, extra) ==
  [date |-> dt, title |-> <<"T", Digits[i + 1]>>,
   via |-> IF extra THEN <<"v">> ELSE <<>>,
   loc |-> IF extra THEN <<"l", ".", "m", "d">> ELSE <<>>,
   md_txt |-> <<"\n", "b", "\n", "c", "\n">>]

ActionFileLists ==
  UNION { { [i \in 1..k |-> ActionFile(i, d[i], x[i])] :
              d \in [1..k -> DateSet], x \in [1..k -> BOOLEAN] } : k \in 0..MaxFiles }

\* ---------------------------------------------------------------- state machine
NoCall == [status |-> "none", text |-> None]

Start ==
  /\ pc = "ready"
  /\ op = "none"
  /\ args = <<>>
  /\ content = <<>>
  /\ link_defs = <<>>
  /\ sections = <<>>
  /\ out = <<>>
  /\ actions = <<>>
  /\ entries = <<>>
  /\ ret = NoCall

\* a project with one markdown file to include
Init ==
  /\ lines \in Files
  /\ action_files = <<>>
  /\ Start

\* a project with a directory of action files
InitActions ==
  /\ lines = <<>>
  /\ action_files \in ActionFileLists
  /\ Start

\* a page calls {{ include_file_sections(file, inc, exc, downshift_h1=ds) }}:
\* the statements of the macro in their order, each local assigned once
IncludeFileSections ==
  /\ pc = "ready"
  /\ \E ds \in BOOLEAN :
       /\ content' = include_file(lines, ds, 0, <<>>, get_git_branch_name)
       /\ link_defs' = FindAllLinkDefs(content')
       /\ sections' = Sections(content')
       /\ \E include_sections \in FilterLists, exclude_sections \in FilterLists :
            /\ args' = [include_sections |-> include_sections,
                        exclude_sections |-> exclude_sections,
                        downshift_h1 |-> ds]
            /\ out' = FilterSections(sections', link_defs',
                                     include_sections, exclude_sections).out
            /\ ret' = FilterSections(sections', link_defs',
                                     include_sections, exclude_sections).ret
  /\ op' = "include_file_sections"
  /\ pc' = "done"
  /\ UNCHANGED <<lines, action_files, actions, entries>>

\* a page calls {{ include_file(file, downshift_h1=ds, start_line=a, end_line=b) }}
IncludeFile ==
  /\ pc = "ready"
  /\ \E ds \in BOOLEAN, a \in 0..1, b \in {<<>>, <<1>>} :
       /\ args' = [downshift_h1 |-> ds, start_line |-> a, end_line |-> b]
       /\ ret' = [status |-> "ok",
                  text |-> include_file(lines, ds, a, b, get_git_branch_name)]
  /\ op' = "include_file"
  /\ pc' = "done"
  /\ UNCHANGED <<lines, action_files, content, link_defs, sections, out, actions, entries>>

\* downshift_md_heading applied to the text of the file
DownshiftMdHeading ==
  /\ pc = "ready"
  /\ args' = [md |-> Join(lines, <<NL>>)]
  /\ ret' = [status |-> "ok", text |-> downshift_md_heading(Join(lines, <<NL>>))]
  /\ op' = "downshift_md_heading"
  /\ pc' = "done"
  /\ UNCHANGED <<lines, action_files, content, link_defs, sections, out, actions, entries>>

\* a page calls {{ list_actions(dir) }}
ListActions ==
  /\ pc = "ready"
  /\ LET r == list_actions(action_files)
     IN  /\ actions' = r.actions
         /\ entries' = r.entries
         /\ ret' = r.ret
  /\ args' = [files |-> Len(action_files)]
  /\ op' = "list_actions"
  /\ pc' = "done"
  /\ UNCHANGED <<lines, action_files, content, link_defs, sections, out>>

Next == IncludeFileSections \/ IncludeFile \/ DownshiftMdHeading

Spec == Init /\ [][Next]_vars

NextActions == ListActions

SpecActions == InitActions /\ [][NextActions]_vars

\* ---------------------------------------------------------------- properties
\* include_file_sections has returned or raised
DoneSections == pc = "done" /\ op = "include_file_sections"

\* include_file_sections has returned its text
ReturnedSections == DoneSections /\ ret.status = "ok"

\* the filter lists of the call, lower-cased entry by entry
IncKeys == {StrLower(args.include_sections[i]) : i \in 1..Len(args.include_sections)}
ExcKeys == {StrLower(args.exclude_sections[i]) : i \in 1..Len(args.exclude_sections)}

\* the number of rendered sections in out: what precedes the link definitions
NKept == Len(out) - Len(link_defs)

\* the sections the filter rule keeps, as indexes into sections
KeptIndexes ==
  {i \in 1..Len(sections) :
     /\ IncKeys = {} \/ StrLower(sections[i].title) \in IncKeys
     /\ StrLower(sections[i].title) \notin ExcKeys}

\* the j-th smallest element of a set of integers
Nth(S, j) == CHOOSE i \in S : Cardinality({k \in S : k < i}) = j - 1

\* the text a section is rendered as
Rendered(sec) == sec.lvl \o <<" ">> \o sec.title \o <<NL, NL>> \o sec.body

\* C1: the call raises the configuration error exactly when a lower-cased
\* include title equals a lower-cased exclude title, and then returns no text.
C1_ConflictRaises ==
  DoneSections =>
    LET conflict == \E i \in 1..Len(args.include_sections),
                       j \in 1..Len(args.exclude_sections) :
                      StrLower(args.include_sections[i]) = StrLower(args.exclude_sections[j])
    IN  /\ conflict <=> ret.status = "ValueError"
        /\ ~conflict <=> ret.status = "ok"
        /\ conflict => ret.text = None /\ out = <<>>

\* a conflict between entries that differ in case only
C1_Witness ==
  /\ DoneSections
  /\ ret.status = "ValueError"
  /\ args.include_sections = <<<<"A">>>>
  /\ args.exclude_sections = <<<<"a">>>>

\* C2: without conflict, a section is rendered iff (the inclusion set is empty
\* or holds its lower-cased title) and the exclusion set does not hold it.
C2_KeepRule ==
  ReturnedSections =>
    LET K == KeptIndexes
    IN  /\ NKept = Cardinality(K)
        /\ \A i \in 1..Len(sections) :
             i \in K <=> \E j \in 1..NKept : out[j] = Rendered(sections[i])

\* including one title keeps the two sections that bear it and drops a third
C2_Witness ==
  /\ ReturnedSections
  /\ Len(args.include_sections) = 1
  /\ args.exclude_sections = <<>>
  /\ Len(sections) = 3
  /\ Cardinality(KeptIndexes) = 2

\* C3: the kept sections are rendered in document order, duplicates of a title
\* each rendered; with empty filters all sections are rendered in order.
C3_OrderPreserved ==
  ReturnedSections =>
    LET K == KeptIndexes
    IN
    /\ NKept = Cardinality(K)
    /\ \A j \in 1..NKept : out[j] = Rendered(sections[Nth(K, j)])
    /\ (args.include_sections = <<>> /\ args.exclude_sections = <<>>) =>
         /\ NKept = Len(sections)
         /\ \A j \in 1..NKept : out[j] = Rendered(sections[j])

\* two sections of one title are both kept, a section between them is dropped
C3_Witness ==
  /\ ReturnedSections
  /\ Len(sections) = 3
  /\ KeptIndexes = {1, 3}
  /\ StrLower(sections[1].title) = StrLower(sections[3].title)
  /\ out[1] # out[2]

\* C4: every link definition of the text is appended as "label: target" after
\* the kept sections, in scan order; the appended list is that of the text
\* include_file returns, whichever sections the filters keep.
C4_LinkDefsAppended ==
  ReturnedSections =>
    LET defs == FindAllLinkDefs(include_file(lines, args.downshift_h1, 0, <<>>,
                                             get_git_branch_name))
        n == Cardinality(KeptIndexes)
    IN  /\ link_defs = defs
        /\ Len(out) = n + Len(defs)
        /\ \A k \in 1..Len(defs) :
             out[n + k] = defs[k][1] \o <<":", " ">> \o defs[k][2]

\* a definition inside a dropped section is appended after a kept section
C4_Witness ==
  /\ ReturnedSections
  /\ Len(sections) = 2
  /\ KeptIndexes = {1}
  /\ FindAllLinkDefs(sections[1].body) = <<>>
  /\ FindAllLinkDefs(sections[2].body) # <<>>
  /\ Len(out) = 2

\* the heading matches of the text the call split
Matches == HeadingMatches(content, 1)

\* the title group of the heading match m, as written in the text
RawTitle(m) == SubSeq(content, m.tstart, m.end - 1)

\* the filter lists of the call, trimmed and lower-cased entry by entry
IncKeysTrimmed ==
  {StrLower(Strip(args.include_sections[i])) : i \in 1..Len(args.include_sections)}
ExcKeysTrimmed ==
  {StrLower(Strip(args.exclude_sections[i])) : i \in 1..Len(args.exclude_sections)}

\* the heading line a section is rendered with: the hashes, a blank, the
\* trimmed title in the case it was written in
RenderedHeading(m) == Hashes(m.hashes) \o <<" ">> \o Strip(RawTitle(m))

\* text s begins with text pre
StartsWith(s, pre) == Len(s) >= Len(pre) /\ SubSeq(s, 1, Len(pre)) = pre

\* C5 as stated: a heading and a filter entry that are equal after trimming and
\* lower-casing both always match, so each section is rendered iff its trimmed,
\* lower-cased title passes the trimmed, lower-cased filters.
C5_TrimBothSides ==
  ReturnedSections =>
    LET ms == Matches
        inc == IncKeysTrimmed
        exc == ExcKeysTrimmed
    IN  /\ Len(sections) = Len(ms)
        /\ \A i \in 1..Len(ms) :
             LET key == StrLower(Strip(RawTitle(ms[i])))
             IN  ((inc = {} \/ key \in inc) /\ key \notin exc)
                 <=> \E j \in 1..NKept :
                       StartsWith(out[j], RenderedHeading(ms[i]) \o <<NL, NL>>)

\* C5 amended: matching ignores letter case on both sides and surrounding
\* whitespace of the heading title only; a filter entry is lower-cased, not
\* trimmed.  The rendered heading keeps the title's case.
C5_TrimTitleOnly ==
  ReturnedSections =>
    LET ms == Matches
        inc == IncKeys
        exc == ExcKeys
    IN  /\ Len(sections) = Len(ms)
        /\ \A i \in 1..Len(ms) :
             LET key == StrLower(Strip(RawTitle(ms[i])))
             IN  ((inc = {} \/ key \in inc) /\ key \notin exc)
                 <=> \E j \in 1..NKept :
                       StartsWith(out[j], RenderedHeading(ms[i]) \o <<NL, NL>>)

\* the entry "A" selects a heading written "a " (trailing blank, other case)
\* and the heading is rendered as "a"
C5_Witness ==
  /\ ReturnedSections
  /\ args.include_sections = <<<<"A">>>>
  /\ args.exclude_sections = <<>>
  /\ Len(Matches) = 1
  /\ RawTitle(Matches[1]) = <<"a", " ">>
  /\ NKept = 1
  /\ sections[1].title = <<"a">>

\* C6: the text before the first heading is in no section (each section is cut
\* from its heading match on) and what is rendered before the link definitions
\* is sections only; a text without a heading has no section, raises nothing
\* and the call returns the link definitions alone.
C6_PreambleDropped ==
  DoneSections =>
    LET ms == Matches
    IN
    /\ Len(sections) = Len(ms)
    /\ \A i \in 1..Len(ms) :
         /\ sections[i].lvl = Hashes(ms[i].hashes)
         /\ sections[i].title = Strip(RawTitle(ms[i]))
         /\ sections[i].body =
              Strip(SubSeq(content, ms[i].end,
                           IF i < Len(ms) THEN ms[i + 1].start - 1
                           ELSE Len(content)))
    /\ \A j \in 1..NKept : \E i \in 1..Len(sections) : out[j] = Rendered(sections[i])
    /\ (ms = <<>> /\ IncKeys \cap ExcKeys = {}) =>
         /\ ret.status = "ok"
         /\ sections = <<>>
         /\ Len(out) = Len(link_defs)
         /\ ret.text = Join([k \in 1..Len(link_defs) |->
                               link_defs[k][1] \o <<":", " ">> \o link_defs[k][2]],
                            <<NL, NL>>)
         /\ link_defs = <<>> => ret.text = <<>>

\* a text, a definition and no heading, filtered by title: the definition alone
C6_Witness ==
  /\ ReturnedSections
  /\ Matches = <<>>
  /\ Len(lines) = 2
  /\ args.include_sections # <<>>
  /\ Len(link_defs) = 1
  /\ ret.text = <<"[", "x", "]", ":", " ", "y">>

\* ---- headings line by line, as the data model describes them
\* a line starts at p with 1 to 6 '#' and a whitespace character after them
HeadingLineAt(s, p) ==
  LET h == SkipChar(s, p, "#")
  IN  AtLineStart(s, p) /\ h - p >= 1 /\ h - p <= 6 /\ h <= Len(s) /\ IsSpace(s[h])

\* the number of '#' the line at p starts with
LevelAt(s, p) == SkipChar(s, p, "#") - p

\* what follows the hashes on the line at p
TitleAt(s, p) == Strip(SubSeq(s, SkipChar(s, p, "#"), LineEnd(s, p) - 1))

\* the start of the first heading line at or after q, or Len(s)+1
NextHeadingLine(s, q) ==
  LET at == {p \in q..Len(s) : HeadingLineAt(s, p)}
  IN  IF at = {} THEN Len(s) + 1 ELSE Min(at)

\* C7: a heading line of hashes followed by whitespace only is a section of
\* title "" whose body is the text of the following lines up to the next
\* heading line.
C7_EmptyTitleSection ==
  DoneSections =>
    \A p \in 1..Len(content) :
      (HeadingLineAt(content, p) /\ TitleAt(content, p) = <<>>) =>
        \E i \in 1..Len(sections) :
          /\ sections[i].lvl = Hashes(LevelAt(content, p))
          /\ sections[i].title = <<>>
          /\ sections[i].body =
               Strip(SubSeq(content, LineEnd(content, p),
                            NextHeadingLine(content, LineEnd(content, p)) - 1))

\* C8: no link definition stays inside a rendered section: each is in the
\* output once, in the trailing block.
C8_LinkDefsRelocated ==
  ReturnedSections =>
    /\ \A j \in 1..NKept : FindAllLinkDefs(out[j]) = <<>>
    /\ Len(FindAllLinkDefs(ret.text)) = Len(link_defs)

\* ---- downshift_md_heading
\* s.split("\n")
RECURSIVE SplitNL(_)
SplitNL(s) ==
  LET e == LineEnd(s, 1)
  IN  IF e > Len(s) THEN <<s>>
      ELSE <<SubSeq(s, 1, e - 1)>> \o SplitNL(SubSeq(s, e + 1, Len(s)))

\* line ln is a heading: 1 to 6 '#', then a blank
IsHeadingLine(ln) ==
  LET h == SkipChar(ln, 1, "#")
  IN  h - 1 >= 1 /\ h - 1 <= 6 /\ h <= Len(ln) /\ ln[h] = " "

\* the heading ln one level deeper, capped at six, title unchanged
Deeper(ln) ==
  LET n == SkipChar(ln, 1, "#") - 1
  IN  Hashes(IF n < 6 THEN n + 1 ELSE 6) \o <<" ">>
      \o SubSeq(ln, SkipSpace(ln, n + 1), Len(ln))

\* C9: downshift_md_heading turns each heading line of level n into one of
\* level min(n+1, 6) with the same title and leaves every other line as it is;
\* so the sections of a file included with the default downshift are one
\* level deeper than its heading lines, capped at six.
C9_DownshiftByLine ==
  /\ (pc = "done" /\ op = "downshift_md_heading") =>
       LET before == SplitNL(args.md)
           after == SplitNL(ret.text)
       IN  /\ Len(after) = Len(before)
           /\ \A k \in 1..Len(before) :
                after[k] = IF IsHeadingLine(before[k]) THEN Deeper(before[k])
                           ELSE before[k]
  /\ (DoneSections /\ args.downshift_h1) =>
       LET heads == SelectSeq(lines, IsHeadingLine)
       IN  /\ Len(sections) = Len(heads)
           /\ \A k \in 1..Len(heads) :
                sections[k].lvl = SubSeq(Deeper(heads[k]), 1, Len(sections[k].lvl))

\* ---- list_actions
\* the day a front-matter date names, as the number yyyymmdd
DayNumber(dt) ==
  IF dt.kind = "date" THEN dt.ymd[1] * 10000 + dt.ymd[2] * 100 + dt.ymd[3]
  ELSE ParseInt(SubSeq(dt.s, 1, 4)) * 10000 + ParseInt(SubSeq(dt.s, 6, 7)) * 100
       + ParseInt(SubSeq(dt.s, 9, 10))

\* the position in the input of the file an action came from
FileIndex(act) == CHOOSE f \in 1..Len(action_files) : action_files[f] = act

\* C10: for dates given as date values or as strings, possibly mixed, one entry
\* is rendered per file, newest first, files of one day in input order.
C10_ReverseChronological ==
  (pc = "done" /\ op = "list_actions") =>
    /\ ret.status = "ok"
    /\ Len(entries) = Len(action_files)
    /\ Len(actions) = Len(action_files)
    /\ \A f \in 1..Len(action_files) :
         Cardinality({i \in 1..Len(actions) : actions[i] = action_files[f]}) = 1
    /\ \A i \in 1..Len(actions) :
         StartsWith(entries[i], <<"?", "?", "?", " ", "a", "b", "s", "t", "r", "a", "c", "t", " ", "\"">> \o DateStr(actions[i].date)
                                \o <<" ">> \o actions[i].title \o <<"\"">>)
    /\ \A i \in 1..(Len(actions) - 1) :
         /\ DayNumber(actions[i].date) >= DayNumber(actions[i + 1].date)
         /\ DayNumber(actions[i].date) = DayNumber(actions[i + 1].date)
              => FileIndex(actions[i]) < FileIndex(actions[i + 1])

====
